---- MODULE Spec2Model ----
(***************************************************************************)
(* A model of api/views.py of the CV comparison backend:                   *)
(*   - normalize_result, the defensive normaliser of the AI's JSON reply,  *)
(*   - CompareCVsView.craft_prompt, the prompt compiler,                   *)
(*   - CompareCVsView.post, the request handler that validates, extracts,  *)
(*     calls the AI provider once and parses its reply.                    *)
(* JSON values are tagged records; Python exceptions are explicit results. *)
(***************************************************************************)
EXTENDS Integers, Sequences, FiniteSets, TLC

\* ------------------------------------------------------------------ bounds
\* Largest number used as a supplied score in the enumerated payloads.
MaxNum == 1
\* Longest 'candidates' list in the enumerated payloads.
MaxCands == 2

\* -------------------------------------------------------------- JSON values
\* A JSON value as json.loads builds it: None, str, int/float, list, dict.
JNull == [t |-> "null"]
JStr(s) == [t |-> "str", s |-> s]
JNum(n) == [t |-> "num", n |-> n]
JList(l) == [t |-> "list", l |-> l]
JDict(d) == [t |-> "dict", d |-> d]
\* The dict with no key.
EmptyMap == [k \in {} |-> JNull]

IsDict(v) == v.t = "dict"
IsList(v) == v.t = "list"
IsStr(v) == v.t = "str"

\* dict.get(key, default) on the mapping d.
Get(d, k, default) == IF k \in DOMAIN d THEN d[k] ELSE default

\* {**a, **b}: a shallow merge, b's keys override a's, each as a whole.
Merge(a, b) == [k \in (DOMAIN a) \cup (DOMAIN b) |-> IF k \in DOMAIN b THEN b[k] ELSE a[k]]

\* A call's outcome: a returned value, or a raised exception.
Ok(v) == [ok |-> TRUE, v |-> v]
Raise(e) == [ok |-> FALSE, exc |-> e]

\* _ensure_list(value): a list stays, None becomes [], anything else [value].
ensure_list(value) ==
    IF IsList(value) THEN value
    ELSE IF value = JNull THEN JList(<<>>)
    ELSE JList(<<value>>)

\* ----------------------------------------------------------------- defaults
default_scores ==
    [general_qualifications |->
        JDict([education |-> JNum(0), years_of_experience |-> JNum(0), total |-> JNum(0)]),
     adequacy_for_assignment |->
        JDict([relevant_project_experience |-> JNum(0), donor_experience |-> JNum(0),
               regional_experience |-> JNum(0), total |-> JNum(0)]),
     specific_skills_competencies |->
        JDict([technical_skills |-> JNum(0), language_proficiency |-> JNum(0),
               certifications |-> JNum(0), total |-> JNum(0)]),
     total_score |-> JNum(0)]

Criterion(name, weight) == JDict([criterion |-> JStr(name), weight |-> JNum(weight)])

default_criteria ==
    JList(<< Criterion("Education", 10),
             Criterion("Years of Experience", 10),
             Criterion("Relevant Project Experience", 25),
             Criterion("Donor Experience (WB, ADB, etc.)", 15),
             Criterion("Regional Experience", 10),
             Criterion("Technical Skills", 15),
             Criterion("Language Proficiency", 10),
             Criterion("Certifications", 5) >>)

default_result ==
    JDict([tor_text |-> JStr(""),
           criteria |-> default_criteria,
           candidates |-> JList(<<>>),
           comparison_matrix |-> JList(<<>>),
           final_recommendation |->
               JDict([best_candidate |-> JStr("None"),
                      final_decision |-> JStr("None Suitable"),
                      justification |-> JStr("No suitable candidates found.")])])

\* ---------------------------------------------------------- normalize_result
\* One pass of the loop over candidates (views.py 98-110). candidate.get raises
\* AttributeError on a non-dict, {**default_scores, **x} raises TypeError on a
\* non-mapping x, and .get on a non-dict summary_justification AttributeError.
normalize_candidate(candidate) ==
    IF ~IsDict(candidate) THEN Raise("AttributeError")
    ELSE LET c == candidate.d
             scores == Get(c, "scores", JDict(EmptyMap))
             sj == Get(c, "summary_justification", JDict(EmptyMap))
         IN  IF ~IsDict(scores) THEN Raise("TypeError")
             ELSE IF ~IsDict(sj) THEN Raise("AttributeError")
             ELSE Ok(JDict(
                [candidate_name |-> Get(c, "candidate_name", JStr("Unnamed Candidate")),
                 recommendation |-> Get(c, "recommendation", JStr("Not Evaluated")),
                 scores |-> JDict(Merge(default_scores, scores.d)),
                 summary_justification |->
                    JDict([key_strengths |-> Get(sj.d, "key_strengths", JStr("None provided.")),
                           key_weaknesses |-> Get(sj.d, "key_weaknesses", JStr("None provided."))]),
                 detailed_evaluation |->
                    ensure_list(Get(c, "detailed_evaluation", JList(<<>>)))]))

\* One pass of the loop over the comparison matrix (views.py 115-120).
normalize_matrix_item(item) ==
    IF ~IsDict(item) THEN Raise("AttributeError")
    ELSE Ok(JDict(
        [candidate_name |-> Get(item.d, "candidate_name", JStr("Unnamed Candidate")),
         total_score |-> Get(item.d, "total_score", JNum(0)),
         rank |-> Get(item.d, "rank", JNum(0))]))

\* The final-recommendation block (views.py 123-128).
normalize_final_recommendation(result) ==
    LET final_recommendation == Get(result, "final_recommendation", JDict(EmptyMap))
    IN  IF ~IsDict(final_recommendation) THEN Raise("AttributeError")
        ELSE Ok(JDict(
            [best_candidate |-> Get(final_recommendation.d, "best_candidate", JStr("None")),
             final_decision |-> Get(final_recommendation.d, "final_decision", JStr("None Suitable")),
             justification |-> Get(final_recommendation.d, "justification",
                                   JStr("No suitable candidates found."))]))

\* A for-loop that appends f(item) for each item, in order: the first raise ends it.
RECURSIVE LoopFrom(_, _, _, _)
LoopFrom(items, i, acc, which) ==
    IF i > Len(items) THEN Ok(JList(acc))
    ELSE LET r == IF which = "candidate" THEN normalize_candidate(items[i])
                  ELSE normalize_matrix_item(items[i])
         IN  IF ~r.ok THEN r
             ELSE LoopFrom(items, i + 1, Append(acc, r.v), which)

normalize_candidates(result) ==
    LoopFrom(ensure_list(Get(result, "candidates", JList(<<>>))).l, 1, <<>>, "candidate")

normalize_matrix(result) ==
    LoopFrom(ensure_list(Get(result, "comparison_matrix", JList(<<>>))).l, 1, <<>>, "matrix")

\* The 'tor_text' entry of the returned mapping (views.py 131).
normalized_tor_text(result) == Get(result, "tor_text", JStr(""))

\* A slip in the 'criteria' entry: the value is wrapped in a list without
\* _ensure_list, so a list is wrapped once more.
normalized_criteria_wrapped(result) == JList(<<Get(result, "criteria", default_criteria)>>)

\* The 'criteria' entry of the returned mapping (views.py 132).
normalized_criteria(result) == ensure_list(Get(result, "criteria", default_criteria))

\* normalize_result(result): the statements run in source order, so the first
\* exception met is the one raised.
normalize_result(result) ==
    IF ~IsDict(result) THEN Ok(default_result)
    ELSE LET cands == normalize_candidates(result.d)
             matrix == normalize_matrix(result.d)
             final == normalize_final_recommendation(result.d)
         IN  IF ~cands.ok THEN cands
             ELSE IF ~matrix.ok THEN matrix
             ELSE IF ~final.ok THEN final
             ELSE Ok(JDict(
                [tor_text |-> normalized_tor_text(result.d),
                 criteria |-> normalized_criteria(result.d),
                 candidates |-> cands.v,
                 comparison_matrix |-> matrix.v,
                 final_recommendation |-> final.v]))

\* Re-serialisation of a returned result to plain JSON form (json.dumps, then
\* json.loads): every value is rebuilt from its serialised type.
RECURSIVE ToRawForm(_)
ToRawForm(v) ==
    IF v.t = "list" THEN JList([i \in DOMAIN v.l |-> ToRawForm(v.l[i])])
    ELSE IF v.t = "dict" THEN JDict([k \in DOMAIN v.d |-> ToRawForm(v.d[k])])
    ELSE IF v.t = "str" THEN JStr(v.s)
    ELSE IF v.t = "num" THEN JNum(v.n)
    ELSE JNull

\* ------------------------------------------------------- enumerated payloads
\* A key the payload does not hold.
Absent == [t |-> "absent"]
\* The dict holding the keys of f that are not Absent.
MkDict(f) == JDict([k \in {x \in DOMAIN f : f[x] # Absent} |-> f[k]])

Nums == 1..MaxNum

ScoreInputs ==
    {Absent, JNull, JStr("x"), JDict(EmptyMap), JDict([total_score |-> JNull])}
    \cup {JDict([general_qualifications |-> JDict([education |-> JNum(n)])]) : n \in Nums}
    \cup {JDict([total_score |-> JNum(n), bonus |-> JNum(n)]) : n \in Nums}
    \cup {JDict(Merge(default_scores, [total_score |-> JNum(n)])) : n \in Nums}

SummaryInputs ==
    {Absent, JStr("x"), JDict([key_strengths |-> JStr("s")]),
     JDict([key_strengths |-> JStr("s"), key_weaknesses |-> JStr("w"), note |-> JStr("n")])}

DetailEntry ==
    JDict([criterion |-> JStr("Education"), weight |-> JNum(10), score |-> JNum(1),
           justification |-> JStr("j"), evidence |-> JStr("e")])

DetailInputs == {Absent, JNull, DetailEntry, JList(<<DetailEntry>>)}

CandidateDicts ==
    {MkDict([candidate_name |-> n, scores |-> s, summary_justification |-> j,
             detailed_evaluation |-> e, email |-> x]) :
        n \in {Absent, JStr("Jane Doe")}, s \in ScoreInputs, j \in SummaryInputs,
        e \in DetailInputs, x \in {Absent, JStr("a@b")}}

\* The elements that may follow the first one of a 'candidates' list.
CandidateTails ==
    {JDict(EmptyMap), JStr("x"),
     JDict([scores |-> JDict([general_qualifications |-> JDict([education |-> JNum(1)])])])}

RECURSIVE SeqsUpTo(_, _)
\* The sequences over S of length at most n.
SeqsUpTo(S, n) ==
    IF n = 0 THEN {<<>>}
    ELSE LET shorter == SeqsUpTo(S, n - 1)
         IN  shorter \cup {Append(q, x) : q \in shorter, x \in S}

CandidatesRich ==
    CandidateDicts
    \cup {JList(<<c>> \o tail) : c \in CandidateDicts, tail \in SeqsUpTo(CandidateTails, MaxCands - 1)}

CandidatesSmall ==
    {Absent, JNull, JStr("x"), JList(<<JStr("x")>>), JDict(EmptyMap),
     JList(<<JDict(EmptyMap), JDict([candidate_name |-> JStr("Jane Doe")])>>)}

TorInputs ==
    {Absent, JStr("x"), JNull, JNum(1), JList(<<JStr("x")>>), JDict(EmptyMap)}

CriteriaInputs ==
    {Absent, JNull, JList(<<>>),
     JDict([criterion |-> JStr("Education"), weight |-> JNum(10)]),
     JList(<<JDict([criterion |-> JStr("Education"), weight |-> JNum(10), note |-> JStr("n")])>>)}

MatrixInputs ==
    {Absent, JNull, JStr("x"), JList(<<JStr("x")>>),
     JDict([candidate_name |-> JStr("Jane Doe")]),
     JList(<<JDict([candidate_name |-> JStr("Jane Doe"), total_score |-> JNum(1),
                    rank |-> JNum(1), note |-> JStr("n")])>>)}

FinalInputs ==
    {Absent, JNull, JStr("x"), JDict(EmptyMap),
     JDict([best_candidate |-> JStr("Jane Doe")]),
     JDict([best_candidate |-> JStr("Jane Doe"), final_decision |-> JStr("Suitable"),
            justification |-> JDict([why_he |-> JStr("y")]), note |-> JStr("n")])}

\* The payloads json.loads may hand to normalize_result: non-mappings, mappings
\* whose top-level fields vary freely, and mappings whose candidates vary freely.
Payloads ==
    {JNull, JStr("x"), JNum(1), JList(<<>>), JList(<<JDict(EmptyMap)>>)}
    \cup {MkDict([tor_text |-> t, criteria |-> cr, candidates |-> ca,
                  comparison_matrix |-> m, final_recommendation |-> f, debug |-> x]) :
            t \in TorInputs, cr \in CriteriaInputs, ca \in CandidatesSmall,
            m \in MatrixInputs, f \in FinalInputs, x \in {Absent, JStr("d")}}
    \cup {MkDict([tor_text |-> t, candidates |-> ca]) :
            t \in {Absent, JStr("x")}, ca \in CandidatesRich}

\* ------------------------------------------------------------ craft_prompt
\* A text is a sequence of tokens: a token is one character, or a run of
\* characters that no operation splits (a placeholder, a fixed word).
Q == "\""
B == "\\"
TorPlaceholder == "<<TOR_TEXT>>"
CvsPlaceholder == "<<CVS_TEXT>>"

RECURSIVE Replace(_, _, _)
\* str.replace(old, new): every occurrence of the token old becomes new.
Replace(text, old, new) ==
    IF text = <<>> THEN <<>>
    ELSE (IF Head(text) = old THEN new ELSE <<Head(text)>>) \o Replace(Tail(text), old, new)

\* esc(text): backslashes are doubled first, then quotes get a backslash.
esc(text) == Replace(Replace(text, B, <<B, B>>), Q, <<B, Q>>)

\* The object literal of the i-th document (views.py 249).
cv_item(i, cv) ==
    <<"{", Q, "id", Q, ":", Q, "cv", ToString(i), Q, ",", Q, "file_name", Q, ":", Q>>
    \o esc(cv.filename)
    \o <<Q, ",", Q, "cv_text", Q, ":", Q>>
    \o esc(cv.content)
    \o <<Q, "}">>

RECURSIVE JoinFrom(_, _)
\* ", ".join of the document literals from the i-th on.
JoinFrom(cv_contents, i) ==
    IF i > Len(cv_contents) THEN <<>>
    ELSE cv_item(i, cv_contents[i])
         \o (IF i < Len(cv_contents) THEN <<",", " ">> ELSE <<>>)
         \o JoinFrom(cv_contents, i + 1)

\* cvs_text: the document list literal (views.py 248-251).
cvs_text(cv_contents) == <<"[">> \o JoinFrom(cv_contents, 1) \o <<"]">>

\* The constant template: the instruction body (views.py 253-369, which holds no
\* placeholder) and its two last lines.
template ==
    <<"INSTRUCTIONS", "tor_text: ", TorPlaceholder, "\ncvs: ", CvsPlaceholder, "\n">>

\* craft_prompt: two chained replaces, the second over the first one's output.
craft_prompt(tor, cv_contents) ==
    Replace(Replace(template, TorPlaceholder, esc(tor)), CvsPlaceholder, cvs_text(cv_contents))

\* Longest reference text, longest file name or document text, most documents.
MaxTor == 2
MaxField == 1
MaxDocs == 2

TextAlphabet == {"a", Q, B, TorPlaceholder, CvsPlaceholder}
FieldAlphabet == {"a", Q, B, CvsPlaceholder}
Documents ==
    {[filename |-> f, content |-> c] :
        f \in SeqsUpTo(FieldAlphabet, MaxField), c \in SeqsUpTo(FieldAlphabet, MaxField)}

\* ------------------------------------------------ parsing of the AI's reply
\* The seven characters that open a fenced json block, the three that close it.
FenceOpen == "[fence-json]"
FenceClose == "[fence]"
\* "m" is the member "tor_text":"x"; "x" is any other character.
ReplyAlphabet == {FenceOpen, FenceClose, "{", "}", "m", " ", "x"}

RECURSIVE strip(_)
\* str.strip(): leading and trailing whitespace removed.
strip(text) ==
    IF text = <<>> THEN <<>>
    ELSE IF Head(text) = " " THEN strip(Tail(text))
    ELSE IF text[Len(text)] = " " THEN strip(SubSeq(text, 1, Len(text) - 1))
    ELSE text

\* str.find / str.rfind of one character: its first / last position, 0 if none.
find(text, ch) ==
    IF \E i \in DOMAIN text : text[i] = ch
    THEN CHOOSE i \in DOMAIN text : text[i] = ch /\ \A j \in 1..(i - 1) : text[j] # ch
    ELSE 0
rfind(text, ch) ==
    IF \E i \in DOMAIN text : text[i] = ch
    THEN CHOOSE i \in DOMAIN text : text[i] = ch /\ \A j \in (i + 1)..Len(text) : text[j] # ch
    ELSE 0

\* views.py 199-201: the reply stripped, and a fenced-json wrapper removed.
clean_output(ai_output) ==
    LET cleaned == strip(ai_output)
    IN  IF Len(cleaned) >= 2 /\ cleaned[1] = FenceOpen /\ cleaned[Len(cleaned)] = FenceClose
        THEN strip(SubSeq(cleaned, 2, Len(cleaned) - 1))
        ELSE cleaned

\* views.py 203-210: a text that does not start with '{' is cut to the span from
\* its first '{' to its last '}', or ValueError is raised.
locate_span(cleaned_output) ==
    IF cleaned_output # <<>> /\ cleaned_output[1] = "{" THEN Ok(cleaned_output)
    ELSE LET first_brace == find(cleaned_output, "{")
             last_brace == rfind(cleaned_output, "}")
         IN  IF first_brace # 0 /\ last_brace # 0 /\ last_brace > first_brace
             THEN Ok(SubSeq(cleaned_output, first_brace, last_brace))
             ELSE Raise("ValueError")

RECURSIVE SkipWs(_, _)
\* The first position from i on that holds no whitespace.
SkipWs(text, i) == IF i <= Len(text) /\ text[i] = " " THEN SkipWs(text, i + 1) ELSE i

\* json.loads on a text of the reply alphabet: an object with no member or with
\* the one member, whitespace allowed around its parts; anything else raises.
json_loads(text) ==
    LET open == SkipWs(text, 1)
        m == SkipWs(text, open + 1)
        hasMember == m <= Len(text) /\ text[m] = "m"
        close == IF hasMember THEN SkipWs(text, m + 1) ELSE m
        rest == SkipWs(text, close + 1)
    IN  IF /\ open <= Len(text) /\ text[open] = "{"
           /\ close <= Len(text) /\ text[close] = "}"
           /\ rest > Len(text)
        THEN Ok(IF hasMember THEN JDict([tor_text |-> JStr("x")]) ELSE JDict(EmptyMap))
        ELSE Raise("JSONDecodeError")

\* The responses of post: a status, the error text or the body, and the place
\* (return statement or except clause) that produced it.
ErrorResponse(code, msg, via) == [status |-> code, error |-> msg, via |-> via]
OkResponse(body) == [status |-> 200, body |-> body, via |-> "normalized"]
InvalidJsonResponse == ErrorResponse(500, "Invalid JSON response from AI.", "except JSONDecodeError")
\* except Exception: the error text is str(e).
UnexpectedResponse(msg) == ErrorResponse(500, msg, "except Exception")

\* views.py 198-220: the reply is cleaned, cut, parsed and normalised; an
\* exception reaches the except clause that matches its type.
answer_reply(ai_output) ==
    LET span == locate_span(clean_output(ai_output))
    IN  IF ~span.ok THEN UnexpectedResponse("Invalid JSON format returned by AI.")
        ELSE LET parsed == json_loads(span.v)
             IN  IF ~parsed.ok THEN InvalidJsonResponse
                 ELSE LET norm == normalize_result(parsed.v)
                      IN  IF norm.ok THEN OkResponse(norm.v)
                          ELSE UnexpectedResponse(norm.exc)

\* The most CVs one request may hold (views.py 159).
MaxCVs == 10
\* The most files an enumerated request uploads, and the longest enumerated reply.
MaxUploads == 11
MaxReply == 4

\* -------------------------------------------------------------------- state
VARIABLES
    \* a call of normalize_result
    result,        \* its argument
    n_pc,          \* "call", "returned", "raised" or "renormalized"
    normalized,    \* the outcome of normalize_result(result)
    renormalized,  \* the outcome of normalize_result on the re-serialised result
    \* a call of craft_prompt
    tor,           \* the reference text
    cv_contents,   \* the documents, each [filename, content]
    c_pc,          \* "call" or "done"
    prompt,        \* the returned prompt
    \* a request handled by CompareCVsView.post
    p_pc,          \* the statement post is at
    has_tor,       \* request.POST['tor'] is a non-empty string
    n_files,       \* how many files the request uploads
    api_key,       \* settings.GEMINI_API_KEY is set
    files_done,    \* how many files have been extracted
    any_text,      \* some extracted text is not blank
    checks,        \* the checks passed so far, in the order they passed
    prompts_built, \* how many times craft_prompt was called
    ai_calls,      \* how many times generate_content was called
    ai_output,     \* the outcome of the AI call: the stripped reply, or a raise
    response       \* the response returned

n_vars == <<result, n_pc, normalized, renormalized>>
c_vars == <<tor, cv_contents, c_pc, prompt>>
p_vars == <<p_pc, has_tor, n_files, api_key, files_done, any_text, checks,
            prompts_built, ai_calls, ai_output, response>>
vars == <<n_vars, c_vars, p_vars>>

NoOutcome == [ok |-> FALSE, exc |-> "none"]
NoResponse == [status |-> 0, via |-> "none"]

\* No call of normalize_result, of craft_prompt, no request.
IdleNormalize ==
    result = JNull /\ n_pc = "idle" /\ normalized = NoOutcome /\ renormalized = NoOutcome
IdlePrompt ==
    tor = <<>> /\ cv_contents = <<>> /\ c_pc = "idle" /\ prompt = <<>>
IdlePost ==
    /\ p_pc = "idle" /\ has_tor = FALSE /\ n_files = 0 /\ api_key = FALSE
    /\ files_done = 0 /\ any_text = FALSE /\ checks = <<>>
    /\ prompts_built = 0 /\ ai_calls = 0 /\ ai_output = NoOutcome /\ response = NoResponse

\* ------------------------------------------- specification: normalize_result
InitNormalize ==
    /\ result \in Payloads
    /\ n_pc = "call"
    /\ normalized = NoOutcome
    /\ renormalized = NoOutcome
    /\ IdlePrompt /\ IdlePost

\* normalize_result(result) is called and returns or raises.
Normalize ==
    /\ n_pc = "call"
    /\ normalized' = normalize_result(result)
    /\ n_pc' = IF normalized'.ok THEN "returned" ELSE "raised"
    /\ UNCHANGED <<result, renormalized, c_vars, p_vars>>

\* The returned result is re-serialised and normalised again.
Renormalize ==
    /\ n_pc = "returned"
    /\ renormalized' = normalize_result(ToRawForm(normalized.v))
    /\ n_pc' = "renormalized"
    /\ UNCHANGED <<result, normalized, c_vars, p_vars>>

NextNormalize == Normalize \/ Renormalize

SpecNormalize == InitNormalize /\ [][NextNormalize]_vars

\* ----------------------------------------------- specification: craft_prompt
InitPrompt ==
    /\ tor \in SeqsUpTo(TextAlphabet, MaxTor)
    /\ cv_contents \in SeqsUpTo(Documents, MaxDocs)
    /\ c_pc = "call"
    /\ prompt = <<>>
    /\ IdleNormalize /\ IdlePost

\* craft_prompt(tor, cv_contents) is called and returns the prompt.
CraftPrompt ==
    /\ c_pc = "call"
    /\ prompt' = craft_prompt(tor, cv_contents)
    /\ c_pc' = "done"
    /\ UNCHANGED <<tor, cv_contents, n_vars, p_vars>>

NextPrompt == CraftPrompt

SpecPrompt == InitPrompt /\ [][NextPrompt]_vars

\* ---------------------------------------- specification: CompareCVsView.post
InitPost ==
    /\ p_pc = "check_tor"
    /\ has_tor \in BOOLEAN
    /\ n_files \in 0..MaxUploads
    /\ api_key \in BOOLEAN
    /\ files_done = 0 /\ any_text = FALSE /\ checks = <<>>
    /\ prompts_built = 0 /\ ai_calls = 0 /\ ai_output = NoOutcome /\ response = NoResponse
    /\ IdleNormalize /\ IdlePrompt

\* A slip in the upper limit: one file more than the limit is let through.
TooManyFiles_off_by_one == n_files > MaxCVs + 1

\* The conditions of the validation ifs (views.py 155, 157, 159, 172, 177).
TorMissing == ~has_tor
NoFiles == n_files = 0
TooManyFiles == n_files > MaxCVs
NothingReadable == ~any_text
KeyMissing == ~api_key

\* post returns resp.
Return(resp) ==
    /\ response' = resp
    /\ p_pc' = "done"

\* A check passed: post goes on to the statement next.
Pass(check, next) ==
    /\ checks' = Append(checks, check)
    /\ p_pc' = next
    /\ UNCHANGED response

\* if not tor (views.py 155-156).
CheckTor ==
    /\ p_pc = "check_tor"
    /\ IF TorMissing
       THEN Return(ErrorResponse(400, "ToR is required", "validation")) /\ UNCHANGED checks
       ELSE Pass("tor", "check_files")
    /\ UNCHANGED <<has_tor, n_files, api_key, files_done, any_text, prompts_built,
                   ai_calls, ai_output, n_vars, c_vars>>

\* if not cv_files (views.py 157-158).
CheckFiles ==
    /\ p_pc = "check_files"
    /\ IF NoFiles
       THEN Return(ErrorResponse(400, "At least one CV is required", "validation"))
            /\ UNCHANGED checks
       ELSE Pass("min_files", "check_max")
    /\ UNCHANGED <<has_tor, n_files, api_key, files_done, any_text, prompts_built,
                   ai_calls, ai_output, n_vars, c_vars>>

\* if len(cv_files) > 10 (views.py 159-160).
CheckMax ==
    /\ p_pc = "check_max"
    /\ IF TooManyFiles
       THEN Return(ErrorResponse(400, "Maximum 10 CVs allowed", "validation"))
            /\ UNCHANGED checks
       ELSE Pass("max_files", "extract")
    /\ UNCHANGED <<has_tor, n_files, api_key, files_done, any_text, prompts_built,
                   ai_calls, ai_output, n_vars, c_vars>>

\* One pass of the extraction loop (views.py 165-170): extract_text_from_file
\* returns a blank text, returns a text, or raises ValueError, which the
\* except Exception clause answers.
ExtractFile ==
    /\ p_pc = "extract"
    /\ files_done < n_files
    /\ \E outcome \in {"blank", "text", "error"} :
          IF outcome = "error"
          THEN /\ Return(UnexpectedResponse("Failed to extract text"))
               /\ UNCHANGED <<files_done, any_text, checks>>
          ELSE /\ files_done' = files_done + 1
               /\ any_text' = (any_text \/ outcome = "text")
               /\ IF files_done' = n_files
                  THEN Pass("extracted", "check_readable")
                  ELSE UNCHANGED <<checks, p_pc, response>>
    /\ UNCHANGED <<has_tor, n_files, api_key, prompts_built, ai_calls, ai_output,
                   n_vars, c_vars>>

\* if all(... blank ...) (views.py 172-174).
CheckReadable ==
    /\ p_pc = "check_readable"
    /\ IF NothingReadable
       THEN Return(ErrorResponse(400, "No readable text extracted from uploaded files.",
                                 "validation"))
            /\ UNCHANGED checks
       ELSE Pass("readable", "check_key")
    /\ UNCHANGED <<has_tor, n_files, api_key, files_done, any_text, prompts_built,
                   ai_calls, ai_output, n_vars, c_vars>>

\* if not GEMINI_API_KEY (views.py 177-179).
CheckKey ==
    /\ p_pc = "check_key"
    /\ IF KeyMissing
       THEN Return(ErrorResponse(500, "GEMINI_API_KEY not configured on server.",
                                 "validation"))
            /\ UNCHANGED checks
       ELSE Pass("api_key", "prompt")
    /\ UNCHANGED <<has_tor, n_files, api_key, files_done, any_text, prompts_built,
                   ai_calls, ai_output, n_vars, c_vars>>

\* prompt = self.craft_prompt(tor, cv_contents) (views.py 191).
BuildPrompt ==
    /\ p_pc = "prompt"
    /\ prompts_built' = prompts_built + 1
    /\ p_pc' = "call"
    /\ UNCHANGED <<has_tor, n_files, api_key, files_done, any_text, checks, ai_calls,
                   ai_output, response, n_vars, c_vars>>

\* generate_content returns a reply (views.py 194-213): its text is stripped,
\* parsed and normalised, and post returns the response.
AIReplies ==
    /\ p_pc = "call"
    /\ ai_calls' = ai_calls + 1
    /\ \E reply \in SeqsUpTo(ReplyAlphabet, MaxReply) :
          /\ ai_output' = Ok(strip(reply))
          /\ Return(answer_reply(strip(reply)))
    /\ UNCHANGED <<has_tor, n_files, api_key, files_done, any_text, checks,
                   prompts_built, n_vars, c_vars>>

\* generate_content raises (views.py 194, 218-220).
AIFails ==
    /\ p_pc = "call"
    /\ ai_calls' = ai_calls + 1
    /\ ai_output' = Raise("APIError")
    /\ Return(UnexpectedResponse("APIError"))
    /\ UNCHANGED <<has_tor, n_files, api_key, files_done, any_text, checks,
                   prompts_built, n_vars, c_vars>>

NextPost ==
    \/ CheckTor \/ CheckFiles \/ CheckMax \/ ExtractFile \/ CheckReadable
    \/ CheckKey \/ BuildPrompt \/ AIReplies \/ AIFails

SpecPost == InitPost /\ [][NextPost]_vars

\* ------------------------------------------------- claims on normalize_result
Called == n_pc # "call"
Returned == n_pc \in {"returned", "renormalized"}

TopKeys == {"tor_text", "criteria", "candidates", "comparison_matrix", "final_recommendation"}
CandidateKeys == {"candidate_name", "recommendation", "scores", "summary_justification",
                  "detailed_evaluation"}
SummaryKeys == {"key_strengths", "key_weaknesses"}
DetailKeys == {"criterion", "weight", "score", "justification"}
CriterionKeys == {"criterion", "weight"}
MatrixKeys == {"candidate_name", "total_score", "rank"}
FinalKeys == {"best_candidate", "final_decision", "justification"}
\* The sub-groups of a score block and the leaves of each.
ScoreLeaves ==
    [general_qualifications |-> {"education", "years_of_experience", "total"},
     adequacy_for_assignment |-> {"relevant_project_experience", "donor_experience",
                                  "regional_experience", "total"},
     specific_skills_competencies |-> {"technical_skills", "language_proficiency",
                                       "certifications", "total"}]
ScoreKeys == (DOMAIN ScoreLeaves) \cup {"total_score"}

\* The elements normalize_result loops over as candidates.
InputCandidates == ensure_list(Get(result.d, "candidates", JList(<<>>))).l

\* The leaf g.leaf of the scores the input candidate c supplies, or Absent.
InputLeaf(c, g, leaf) ==
    IF ~IsDict(c) \/ "scores" \notin DOMAIN c.d THEN Absent
    ELSE LET sc == c.d["scores"]
         IN  IF ~IsDict(sc) \/ g \notin DOMAIN sc.d THEN Absent
             ELSE IF leaf = "" THEN sc.d[g]
             ELSE IF ~IsDict(sc.d[g]) \/ leaf \notin DOMAIN sc.d[g].d THEN Absent
             ELSE sc.d[g].d[leaf]

\* C1: normalize_result never raises and always returns a mapping that holds all
\* five top-level fields, whatever the input value is.
C1_Totality ==
    Called => /\ normalized.ok
              /\ IsDict(normalized.v)
              /\ TopKeys \subseteq DOMAIN normalized.v.d

\* C2: in every returned result, every candidate's scores block holds all eleven
\* numeric leaves of the default skeleton, none null or missing, and a leaf the
\* input did not supply is 0.0.
C2_AllScoreLeaves ==
    Returned =>
        \A i \in DOMAIN normalized.v.d.candidates.l :
            LET sc == normalized.v.d.candidates.l[i].d.scores.d
                inc == IF IsDict(result) THEN InputCandidates[i] ELSE JNull
            IN  /\ \A g \in DOMAIN ScoreLeaves :
                     /\ g \in DOMAIN sc
                     /\ IsDict(sc[g])
                     /\ \A leaf \in ScoreLeaves[g] :
                          /\ leaf \in DOMAIN sc[g].d
                          /\ sc[g].d[leaf].t = "num"
                          /\ InputLeaf(inc, g, leaf) = Absent => sc[g].d[leaf] = JNum(0)
                /\ "total_score" \in DOMAIN sc
                /\ sc["total_score"].t = "num"
                /\ InputLeaf(inc, "total_score", "") = Absent => sc["total_score"] = JNum(0)

RECURSIVE SumWeights(_, _)
SumWeights(l, i) == IF i > Len(l) THEN 0 ELSE l[i].d.weight.n + SumWeights(l, i + 1)

\* C3: the output 'criteria' is never empty; for an input mapping whose criteria
\* is the empty list or that has no criteria key, it is the fixed 8-entry rubric
\* whose weights sum to 100.
C3_CriteriaNeverEmpty ==
    (Returned /\ IsDict(result)) =>
        /\ normalized.v.d.criteria.l # <<>>
        /\ ("criteria" \notin DOMAIN result.d \/ result.d["criteria"] = JList(<<>>)) =>
              /\ normalized.v.d.criteria = default_criteria
              /\ Len(normalized.v.d.criteria.l) = 8
              /\ SumWeights(normalized.v.d.criteria.l, 1) = 100

\* C4: normalize_result is idempotent: normalising the re-serialised result of a
\* call that returned gives that same result.
C4_Idempotent ==
    n_pc = "renormalized" => renormalized = normalized

\* A call that changed its input, on a payload with candidates, normalised again.
C4_Witness ==
    /\ n_pc = "renormalized"
    /\ renormalized.ok
    /\ normalized.v # result
    /\ Len(normalized.v.d.candidates.l) >= 2
    /\ normalized.v.d.criteria # default_criteria

\* Every dict among the elements of the list l has its keys in keys.
ElementsWithin(l, keys) ==
    \A i \in DOMAIN l : IsDict(l[i]) => DOMAIN l[i].d \subseteq keys

\* C5: the output is a projection onto the declared schema: no other key appears
\* at the top level, in a candidate, in its scores block, in a criteria or
\* detailed_evaluation element, in a comparison_matrix element (exactly
\* candidate_name, total_score, rank) or in final_recommendation (exactly
\* best_candidate, final_decision, justification).
C5_Projection ==
    Returned =>
        LET out == normalized.v.d
        IN  /\ DOMAIN out \subseteq TopKeys
            /\ ElementsWithin(out.criteria.l, CriterionKeys)
            /\ \A i \in DOMAIN out.candidates.l :
                 LET c == out.candidates.l[i].d
                 IN  /\ DOMAIN c \subseteq CandidateKeys
                     /\ DOMAIN c.scores.d \subseteq ScoreKeys
                     /\ \A g \in (DOMAIN ScoreLeaves) \cap (DOMAIN c.scores.d) :
                          IsDict(c.scores.d[g]) => DOMAIN c.scores.d[g].d \subseteq ScoreLeaves[g]
                     /\ DOMAIN c.summary_justification.d \subseteq SummaryKeys
                     /\ ElementsWithin(c.detailed_evaluation.l, DetailKeys)
            /\ \A i \in DOMAIN out.comparison_matrix.l :
                 DOMAIN out.comparison_matrix.l[i].d = MatrixKeys
            /\ DOMAIN out.final_recommendation.d = FinalKeys

\* C9: the output 'tor_text' is always a string: the input's tor_text when that
\* is a string, and the empty string when it is absent or not a string.
C9_TorTextIsString ==
    Returned =>
        LET given == IF IsDict(result) THEN Get(result.d, "tor_text", Absent) ELSE Absent
        IN  /\ IsStr(normalized.v.d.tor_text)
            /\ normalized.v.d.tor_text = (IF IsStr(given) THEN given ELSE JStr(""))

\* ----------------------------------------------------- claims on craft_prompt
RECURSIVE Unescape(_)
\* The text an escaped literal stands for: a backslash makes the next character
\* literal.
Unescape(text) ==
    IF text = <<>> THEN <<>>
    ELSE IF Head(text) = B /\ Len(text) >= 2
         THEN <<text[2]>> \o Unescape(SubSeq(text, 3, Len(text)))
         ELSE <<Head(text)>> \o Unescape(Tail(text))

RECURSIVE ScanLiterals(_, _, _, _, _)
\* The string literals of text from position i on, each unescaped: a quote opens
\* a literal and the next quote that no backslash escapes closes it.
ScanLiterals(text, i, inside, cur, acc) ==
    IF i > Len(text) THEN (IF inside THEN Append(acc, <<"(unterminated)">> \o cur) ELSE acc)
    ELSE IF ~inside
         THEN ScanLiterals(text, i + 1, text[i] = Q, <<>>, acc)
         ELSE IF text[i] = B /\ i < Len(text)
              THEN ScanLiterals(text, i + 2, TRUE, Append(cur, text[i + 1]), acc)
              ELSE IF text[i] = Q
                   THEN ScanLiterals(text, i + 1, FALSE, <<>>, Append(acc, cur))
                   ELSE ScanLiterals(text, i + 1, TRUE, Append(cur, text[i]), acc)

StringLiterals(text) == ScanLiterals(text, 1, FALSE, <<>>, <<>>)

RECURSIVE ExpectedLiterals(_, _)
\* The literals a document list must read back as: per document, in input
\* order, the keys and the id cv<i>, the file name and the text.
ExpectedLiterals(docs, i) ==
    IF i > Len(docs) THEN <<>>
    ELSE << <<"id">>, <<"cv", ToString(i)>>, <<"file_name">>, docs[i].filename,
            <<"cv_text">>, docs[i].content >>
         \o ExpectedLiterals(docs, i + 1)

\* The part of the prompt after the template's "tor_text: " up to the template's
\* next line, and the part after the last "cvs: " up to the final line break.
TorSegment(p) == SubSeq(p, find(p, "tor_text: ") + 1, find(p, "\ncvs: ") - 1)
CvsSegment(p) == SubSeq(p, rfind(p, "\ncvs: ") + 1, Len(p) - 1)

EscapingRoundTrips ==
    /\ Unescape(TorSegment(prompt)) = tor
    /\ StringLiterals(CvsSegment(prompt)) = ExpectedLiterals(cv_contents, 1)

\* C7: escaping round-trips: for every reference text and every file name and
\* document text, un-escaping the literal embedded in the compiled prompt gives
\* back the original text, and no embedded quote ends a literal of the document
\* list early.
C7_EscapingRoundTrips ==
    c_pc = "done" => EscapingRoundTrips

\* The round trip for the reference texts that do not hold the document-list
\* placeholder.
EscapingRoundTripsWithoutPlaceholder ==
    (c_pc = "done" /\ \A i \in DOMAIN tor : tor[i] # CvsPlaceholder) => EscapingRoundTrips

RECURSIVE SubstituteOnce(_, _, _)
\* The template with each placeholder of the template itself replaced, and
\* nothing else.
SubstituteOnce(tpl, forTor, forCvs) ==
    IF tpl = <<>> THEN <<>>
    ELSE (IF Head(tpl) = TorPlaceholder THEN forTor
          ELSE IF Head(tpl) = CvsPlaceholder THEN forCvs
          ELSE <<Head(tpl)>>)
         \o SubstituteOnce(Tail(tpl), forTor, forCvs)

\* C10: craft_prompt substitutes only the two placeholders of the template: the
\* prompt is the template with <<TOR_TEXT>> replaced by the escaped reference
\* text and <<CVS_TEXT>> by the document list (documents in input order, ids
\* cv1..cvN), so a reference text holding <<CVS_TEXT>> stays verbatim.
C10_OnlyTemplatePlaceholders ==
    c_pc = "done" =>
        /\ prompt = SubstituteOnce(template, esc(tor), cvs_text(cv_contents))
        /\ StringLiterals(cvs_text(cv_contents)) = ExpectedLiterals(cv_contents, 1)

\* -------------------------------------------- claims on CompareCVsView.post
\* No JSON span can be located in the cleaned reply: no '{', no '}', or the last
\* '}' before the first '{'.
NoSpanLocatable(text) ==
    LET cleaned == clean_output(text)
    IN  \/ find(cleaned, "{") = 0
        \/ rfind(cleaned, "}") = 0
        \/ rfind(cleaned, "}") < find(cleaned, "{")

\* C6: a reply with no locatable JSON span ends in the JSON-decode failure, the
\* same invalid-JSON error as a span that fails to parse, not in the
\* unexpected-failure catch-all, and never in a defaulted result.
C6_NoSpanIsInvalidJson ==
    (p_pc = "done" /\ ai_output.ok /\ NoSpanLocatable(ai_output.v)) =>
        response = InvalidJsonResponse

\* The checks of post, in source order.
CheckOrder == <<"tor", "min_files", "max_files", "extracted", "readable", "api_key">>

\* C8: the prompt is compiled and the AI invoked at most once, and only after
\* the checks passed in order: reference text present, 1 to 10 files, every
\* file extracted, some text not blank, API key configured; a request failing a
\* check gets its error response without the AI being called.
C8_AIOnlyAfterChecks ==
    /\ prompts_built <= 1 /\ ai_calls <= prompts_built
    /\ Len(checks) <= Len(CheckOrder) /\ checks = SubSeq(CheckOrder, 1, Len(checks))
    /\ prompts_built > 0 =>
          /\ checks = CheckOrder
          /\ has_tor /\ n_files >= 1 /\ n_files <= MaxCVs
          /\ files_done = n_files /\ any_text /\ api_key
    /\ (p_pc = "done" /\ checks # CheckOrder) =>
          /\ ai_calls = 0 /\ prompts_built = 0
          /\ response.status \in {400, 500} /\ response.via # "normalized"

\* A request with the most files allowed whose AI reply was parsed and answered.
C8_Witness ==
    /\ p_pc = "done" /\ ai_calls = 1 /\ prompts_built = 1
    /\ n_files = MaxCVs /\ response.status = 200

====
